---- MODULE Spec2Model ----
(***************************************************************************)
(* Model of src/app.py: the Flask server with its three client handles,    *)
(* the wrappers around them, and the routes /, /health, /chat,             *)
(* /upload-audio and /audios/<filename>.  The /chat handler is modelled    *)
(* stage by stage so that requests of two clients interleave.             *)
(***************************************************************************)
EXTENDS Naturals, Sequences, FiniteSets, TLC

\* ---------------------------------------------------------------- bounds
MaxRequests == 3    \* requests served in one run

Clients == {1, 2}

\* ------------------------------------------------------------ JSON values
JNull == [t |-> "null"]
JAbsent == [t |-> "absent"]          \* the key is not in the body
JStr(s) == [t |-> "str", s |-> s]
JNum(n) == [t |-> "num", n |-> n]
JList(items) == [t |-> "list", items |-> items]

\* Python truthiness of a JSON value
Truthy(v) ==
  CASE v.t = "null" -> FALSE
    [] v.t = "str" -> v.s # ""
    [] v.t = "num" -> v.n # 0
    [] v.t = "list" -> Len(v.items) > 0
    [] v.t = "dict" -> DOMAIN v.d # {}

\* str.strip() on the strings of the model
Whitespace == {" "}
Strip(s) == IF s \in Whitespace THEN "" ELSE s

\* a JSON object with the keys that are present
MkDict(um, dt, ms) ==
  LET all == [user_message |-> um, dtype |-> dt, messages |-> ms]
      keys == {k \in DOMAIN all : all[k].t # "absent"}
  IN  [t |-> "dict", d |-> [k \in keys |-> all[k]]]

\* dict.get(key, default)
Get(data, k, default) == IF k \in DOMAIN data.d THEN data.d[k] ELSE default

\* os.path.join
Join(folder, filename) == folder \o "/" \o filename

UploadPath == Join("audios", "user_audio.mp3")
SynthPath == Join("audios", "ai_response.mp3")
IndexPath == "index.html"
Paths == {IndexPath, UploadPath, SynthPath}

\* ------------------------------------------------------- request inputs
\* the 'messages' lists clients send: the items carry a 'content' or not
HistoryLists == {<<>>,
                 <<[content |-> "t1"]>>,
                 <<[content |-> "t1"], [content |-> "t2"]>>,
                 <<[content |-> "t1"], [role |-> "user"]>>}

UserMessages == {JAbsent, JNum(7), JStr(""), JStr(" "), JStr("hello"), JStr(UploadPath)}
DTypes == {JAbsent, JStr("audio"), JStr("message"), JStr("video")}
Histories == {JAbsent, JNull} \cup {JList(s) : s \in HistoryLists}
Bodies == {JNull, MkDict(JAbsent, JAbsent, JAbsent)}
          \cup {MkDict(um, dt, ms) : um \in UserMessages, dt \in DTypes, ms \in Histories}

\* ------------------------------------------------------------ exceptions
NoExc == [type |-> "", msg |-> ""]
Exc(type, msg) == [type |-> type, msg |-> msg]

OrchNotInit == "Orchestrator not initialized. Check backend configuration."
SttNotInit == "SpeechToText client not initialized. Check backend configuration."
MurfNotInit == "MurfTTSClient not initialized. Check backend configuration."

\* ------------------------------------------------------------ file system
NoFile == [kind |-> "none", by |-> 0, text |-> ""]
StaticFile == [kind |-> "static", by |-> 0, text |-> ""]
Uploaded(c) == [kind |-> "upload", by |-> c, text |-> ""]
Synthesized(c, text) == [kind |-> "tts", by |-> c, text |-> text]

\* an operation a wrapper performs: an external call or a file-system access
Op(name, ok, path, existed) == [op |-> name, ok |-> ok, path |-> path, existed |-> existed]
ExternalOps == {"stt.transcribe", "orch.start_session", "murf.generate_speech", "murf.save_audio"}

\* what the speech-to-text service returns for an audio
Transcript(file) ==
  CASE file.kind = "upload" -> IF file.by = 1 THEN "said by 1" ELSE "said by 2"
    [] file.kind = "tts" -> file.text
    [] OTHER -> "noise"

SttOutcomes == {"text", "raise", "raise_notfound"}
OrchOutcomes == {"solution", "nosolution", "none", "raise"}
\* generate_speech raises or returns resp; save_audio raises or returns a path
SpeechResps == {[success |-> TRUE, encoded_audio |-> "b64"],
                [success |-> TRUE, encoded_audio |-> ""],
                [success |-> FALSE, encoded_audio |-> ""]}
MurfOutcomes == {[raise |-> "generate_speech", resp |-> r] : r \in {[success |-> FALSE, encoded_audio |-> ""]}}
                \cup {[raise |-> "", resp |-> r] : r \in SpeechResps}
                \cup {[raise |-> "save_audio", resp |-> [success |-> TRUE, encoded_audio |-> "b64"]]}
Solution == "reply"

VARIABLES
  phase,          \* "import": module loaded; "serving": app.run / WSGI serving
  orch, sst_client, murf_client,   \* the three handles: a client or "None"
  disk,           \* path -> file content
  pc,             \* client -> position of its request in the server
  req,            \* client -> locals of its chat_endpoint call
  resp,           \* client -> the HTTP response of its request
  trace,          \* client -> operations performed for its request, in order
  wrap,           \* client -> last wrapper call of its request
  mine,           \* client -> what the server returned to it earlier
  uploadPaths,    \* audio_filepath values returned by upload_audio
  synthPaths,     \* values returned by generate_audio_response
  nreq            \* requests served so far

vars == <<phase, orch, sst_client, murf_client, disk, pc, req, resp, trace, wrap,
          mine, uploadPaths, synthPaths, nreq>>

handles == <<orch, sst_client, murf_client>>

\* the file at a path, and whether there is one
FileAt(d, p) == IF p \in DOMAIN d THEN d[p] ELSE NoFile
Exists(d, p) == FileAt(d, p).kind # "none"

\* the file check dropped
IsFile_Unchecked(d, p) == TRUE
\* os.path.isfile
IsFile(d, p) == p \in DOMAIN d /\ d[p].kind # "none"

\* route and the request as sent (body, raw_*, has_audio); then the locals
NoReq == [route |-> "", body |-> "", raw_user_message |-> JNull, raw_dtype |-> JNull,
          has_audio |-> FALSE,
          user_message |-> "", dtype |-> "", messages_history |-> <<>>,
          transcribed_text |-> "", ai_response |-> "", conversation |-> <<>>,
          sent |-> FALSE, heard |-> NoFile]
NoResp == [status |-> 0, body |-> [none |-> ""]]
NoWrap == [fn |-> "", exc |-> NoExc, ops |-> <<>>]
NoMine == [upload |-> "", audio |-> ""]

Json(status, body) == [status |-> status, body |-> body]

\* --------------------------------------------------------------- wrappers
\* each returns the exception raised (or NoExc), the value returned, the
\* operations performed, in order, and the disk afterwards

\* the wrapper without its 'orch is None' check
generate_ai_response_Unchecked(o, message, out) ==
  LET arg == IF message.t = "str" THEN <<message.s>> ELSE message.items
  IN  IF out = "solution" /\ o # "None"
      THEN [exc |-> NoExc, value |-> Solution,
            ops |-> <<Op("orch.start_session", TRUE, "", FALSE)>>, arg |-> arg]
      ELSE [exc |-> Exc("AttributeError", "'NoneType' object has no attribute 'start_session'"),
            value |-> "", ops |-> <<Op("orch.start_session", FALSE, "", FALSE)>>, arg |-> arg]

generate_ai_response(o, message, out) ==
  IF o = "None"
  THEN [exc |-> Exc("RuntimeError", OrchNotInit), value |-> "", ops |-> <<>>,
        arg |-> <<>>]
  ELSE IF message.t \notin {"str", "list"}
  THEN [exc |-> Exc("ValueError", "generate_ai_response: message must be str or list[str]"),
        value |-> "", ops |-> <<>>, arg |-> <<>>]
  ELSE LET arg == IF message.t = "str" THEN <<message.s>> ELSE message.items
       IN  CASE out = "raise" ->
                 [exc |-> Exc("Exception", "orchestrator failed"), value |-> "",
                  ops |-> <<Op("orch.start_session", FALSE, "", FALSE)>>, arg |-> arg]
             [] out \in {"none", "nosolution"} ->
                 [exc |-> Exc("RuntimeError", "Invalid response from Orchestrator"),
                  value |-> "",
                  ops |-> <<Op("orch.start_session", FALSE, "", FALSE)>>, arg |-> arg]
             [] OTHER ->
                 [exc |-> NoExc, value |-> Solution,
                  ops |-> <<Op("orch.start_session", TRUE, "", FALSE)>>, arg |-> arg]

transcribe_audio(s, d, filepath, out) ==
  IF s = "None"
  THEN [exc |-> Exc("RuntimeError", SttNotInit), value |-> "", ops |-> <<>>,
        heard |-> NoFile]
  ELSE IF ~IsFile(d, filepath)
  THEN [exc |-> Exc("FileNotFoundError", "Audio file not found: " \o filepath),
        value |-> "", ops |-> <<Op("os.path.isfile", TRUE, filepath, Exists(d, filepath))>>,
        heard |-> NoFile]
  ELSE LET isfile == Op("os.path.isfile", TRUE, filepath, Exists(d, filepath))
           call(ok) == Op("stt.transcribe", ok, filepath, Exists(d, filepath))
       IN  CASE out = "raise" ->
                 [exc |-> Exc("Exception", "transcription failed"), value |-> "",
                  ops |-> <<isfile, call(FALSE)>>, heard |-> FileAt(d, filepath)]
             [] out = "raise_notfound" ->
                 [exc |-> Exc("FileNotFoundError", "model file not found"), value |-> "",
                  ops |-> <<isfile, call(FALSE)>>, heard |-> FileAt(d, filepath)]
             [] OTHER ->
                 [exc |-> NoExc, value |-> Transcript(FileAt(d, filepath)),
                  ops |-> <<isfile, call(TRUE)>>, heard |-> FileAt(d, filepath)]

\* MurfTTSClient.save_audio(encoded_audio, folder=, filename=): writes the
\* audio under folder/filename and returns that path
save_audio(d, audio, folder, filename) ==
  LET path == Join(folder, filename)
  IN  [path |-> path, disk |-> [d EXCEPT ![path] = audio]]

\* the check of resp dropped: save_audio is called on any resp
SpeechOk_Unchecked(r) == TRUE
\* if resp["success"] and resp.get("encoded_audio")
SpeechOk(r) == r.success /\ r.encoded_audio # ""

generate_audio_response(m, d, ai_message, out, c) ==
  IF m = "None"
  THEN [exc |-> Exc("RuntimeError", MurfNotInit), value |-> "", ops |-> <<>>,
        disk |-> d]
  ELSE LET mk == Op("os.makedirs", TRUE, "audios", FALSE)
           gen(ok) == Op("murf.generate_speech", ok, "", FALSE)
           good == out.resp.success /\ out.resp.encoded_audio # ""
           saved == save_audio(d, Synthesized(c, ai_message), "audios", "ai_response.mp3")
       IN  IF out.raise = "generate_speech"
           THEN [exc |-> Exc("Exception", "speech generation request failed"),
                 value |-> "", ops |-> <<mk, gen(FALSE)>>, disk |-> d]
           ELSE IF ~SpeechOk(out.resp)
           THEN [exc |-> Exc("RuntimeError", "Speech generation failed or no audio returned."),
                 value |-> "", ops |-> <<mk, gen(good)>>, disk |-> d]
           ELSE IF out.raise = "save_audio"
           THEN [exc |-> Exc("Exception", "saving audio failed"), value |-> "",
                 ops |-> <<mk, gen(good), Op("murf.save_audio", FALSE, "", FALSE)>>,
                 disk |-> d]
           ELSE [exc |-> NoExc, value |-> saved.path,
                 ops |-> <<mk, gen(good),
                           Op("murf.save_audio", TRUE, saved.path, Exists(d, saved.path))>>,
                 disk |-> saved.disk]

\* [item['content'] for item in messages_history]: the contents, or the
\* KeyError of the first item without one
HasContent(item) == "content" \in DOMAIN item
Contents(h) == [i \in 1..Len(h) |-> h[i].content]
ContentsOf(h) ==
  IF \A i \in 1..Len(h) : HasContent(h[i])
  THEN [exc |-> NoExc, value |-> Contents(h)]
  ELSE [exc |-> Exc("KeyError", "'content'"), value |-> <<>>]

\* ------------------------------------------------------------------- Init
Init ==
  /\ phase = "import"
  /\ orch = "Orchestrator"
  /\ sst_client = "SpeechToText"
  /\ murf_client = "MurfTTSClient"
  /\ disk = [p \in Paths |-> IF p = IndexPath THEN StaticFile ELSE NoFile]
  /\ pc = [c \in Clients |-> "idle"]
  /\ req = [c \in Clients |-> NoReq]
  /\ resp = [c \in Clients |-> NoResp]
  /\ trace = [c \in Clients |-> <<>>]
  /\ wrap = [c \in Clients |-> NoWrap]
  /\ mine = [c \in Clients |-> NoMine]
  /\ uploadPaths = <<>>
  /\ synthPaths = <<>>
  /\ nreq = 0

\* ---------------------------------------------------------------- startup
\* initialize_clients called again while serving
initialize_clients_Again ==
  /\ \E o \in {"Orchestrator", "None"}, s \in {"SpeechToText", "None"},
        m \in {"MurfTTSClient", "None"} :
       /\ orch' = o
       /\ sst_client' = s
       /\ murf_client' = m
  /\ phase' = "serving"
  /\ UNCHANGED <<disk, pc, req, resp, trace, wrap, mine, uploadPaths, synthPaths, nreq>>

\* initialize_clients(): each constructor succeeds or raises
initialize_clients ==
  /\ phase = "import"
  /\ \E o \in {"Orchestrator", "None"}, s \in {"SpeechToText", "None"},
        m \in {"MurfTTSClient", "None"} :
       /\ orch' = o
       /\ sst_client' = s
       /\ murf_client' = m
  /\ phase' = "serving"
  /\ UNCHANGED <<disk, pc, req, resp, trace, wrap, mine, uploadPaths, synthPaths, nreq>>

\* the module is imported by a WSGI server: the __main__ block does not run
wsgi_import ==
  /\ phase = "import"
  /\ phase' = "serving"
  /\ UNCHANGED <<orch, sst_client, murf_client, disk, pc, req, resp, trace, wrap,
                 mine, uploadPaths, synthPaths, nreq>>

\* a request of client c enters the server
Accept(c) ==
  /\ phase = "serving"
  /\ pc[c] = "idle"
  /\ nreq < MaxRequests
  /\ nreq' = nreq + 1

Respond(c, r) ==
  /\ resp' = [resp EXCEPT ![c] = r]
  /\ pc' = [pc EXCEPT ![c] = "done"]

\* ------------------------------------------------------------------ /chat
\* the JSON values len() accepts
Sized == {"list", "str", "dict"}

\* the responses of chat_endpoint
MissingBody == Json(400, [error |-> "Missing JSON body"])
InvalidDtype == Json(400, [error |-> "Invalid dtype, must be 'audio' or 'message'"])
MissingUserMessage == Json(400, [error |-> "Missing or empty user_message"])
ServerError(e) == Json(500, [error |-> "Server error: " \o e.msg])
AudioNotFound(e) == Json(400, [error |-> e.msg])
TranscriptionFailed(e) == Json(500, [error |-> "Audio transcription failed: " \o e.msg])
AiResponseFailed(e) == Json(500, [error |-> "AI response generation failed: " \o e.msg])
\* the except of the synthesis stage answering without an error status
AudioGenerationFailed_Ok(e) == Json(200, [error |-> "Audio generation failed: " \o e.msg])
AudioGenerationFailed(e) == Json(500, [error |-> "Audio generation failed: " \o e.msg])
Fallback == "I'm having trouble connecting right now. Let's try again in a moment."
FallbackResponse(e) == Json(200, [content |-> Fallback, type |-> "message"])

\* chat_endpoint up to the dispatch on dtype: request.json, the three
\* data.get, the logging of len(messages_history), the two validations
ChatBegin(c, data) ==
  /\ Accept(c)
  /\ LET user_message == Get(data, "user_message", JNull)
         dtype == Get(data, "dtype", JNull)
         messages_history == Get(data, "messages", JList(<<>>))
         sent == [NoReq EXCEPT !.route = "chat",
                               !.body = IF data.t = "null" THEN "none"
                                        ELSE IF DOMAIN data.d = {} THEN "empty" ELSE "dict",
                               !.raw_user_message = IF Truthy(data) THEN user_message ELSE JNull,
                               !.raw_dtype = IF Truthy(data) THEN dtype ELSE JNull]
     IN  IF ~Truthy(data)
         THEN /\ Respond(c, MissingBody)
              /\ req' = [req EXCEPT ![c] = sent]
         ELSE IF messages_history.t \notin Sized
         THEN \* len(messages_history) raises, the outer except answers
              /\ Respond(c, ServerError(Exc("TypeError", "object of type 'NoneType' has no len()")))
              /\ req' = [req EXCEPT ![c] = sent]
         ELSE IF ~(dtype.t = "str" /\ dtype.s \in {"audio", "message"})
         THEN /\ Respond(c, InvalidDtype)
              /\ req' = [req EXCEPT ![c] = sent]
         ELSE IF ~Truthy(user_message) \/ user_message.t # "str"
                 \/ Strip(user_message.s) = ""
         THEN /\ Respond(c, MissingUserMessage)
              /\ req' = [req EXCEPT ![c] = sent]
         ELSE /\ req' = [req EXCEPT ![c] = [sent EXCEPT !.user_message = user_message.s,
                                                       !.dtype = dtype.s,
                                                       !.messages_history = messages_history.items]]
              /\ pc' = [pc EXCEPT ![c] = IF dtype.s = "audio" THEN "transcribe" ELSE "converse"]
              /\ UNCHANGED resp
  /\ trace' = [trace EXCEPT ![c] = <<>>]
  /\ wrap' = [wrap EXCEPT ![c] = NoWrap]
  /\ UNCHANGED <<phase, orch, sst_client, murf_client, disk, mine, uploadPaths, synthPaths>>

\* dtype == "audio": the try around transcribe_audio(user_message)
ChatTranscribe(c, out) ==
  /\ pc[c] = "transcribe"
  /\ LET r == transcribe_audio(sst_client, disk, req[c].user_message, out)
     IN  /\ trace' = [trace EXCEPT ![c] = @ \o r.ops]
         /\ wrap' = [wrap EXCEPT ![c] = [fn |-> "transcribe_audio", exc |-> r.exc, ops |-> r.ops]]
         /\ IF r.exc.type = "FileNotFoundError"
            THEN /\ Respond(c, AudioNotFound(r.exc))
                 /\ UNCHANGED req
            ELSE IF r.exc # NoExc
            THEN /\ Respond(c, TranscriptionFailed(r.exc))
                 /\ UNCHANGED req
            ELSE /\ req' = [req EXCEPT ![c].transcribed_text = r.value, ![c].heard = r.heard]
                 /\ pc' = [pc EXCEPT ![c] = "converse"]
                 /\ UNCHANGED resp
  /\ UNCHANGED <<phase, orch, sst_client, murf_client, disk, mine, uploadPaths, synthPaths, nreq>>

\* the conversation the audio branch builds
AudioConversation(history, transcribed_text) == Append(Contents(history), transcribed_text)

\* the conversation the message branch builds
MessageConversation(history, user_message) == Contents(history)

\* dtype == "audio": the try around generate_ai_response(conversation)
ChatConverseAudio(c, out) ==
  /\ pc[c] = "converse"
  /\ req[c].dtype = "audio"
  /\ LET items == ContentsOf(req[c].messages_history)
         conversation == AudioConversation(req[c].messages_history, req[c].transcribed_text)
         r == generate_ai_response(orch, JList(conversation), out)
     IN  IF items.exc # NoExc
         THEN /\ Respond(c, AiResponseFailed(items.exc))
              /\ UNCHANGED <<req, trace, wrap>>
         ELSE /\ trace' = [trace EXCEPT ![c] = @ \o r.ops]
              /\ wrap' = [wrap EXCEPT ![c] = [fn |-> "generate_ai_response", exc |-> r.exc, ops |-> r.ops]]
              /\ IF r.exc # NoExc
                 THEN /\ Respond(c, AiResponseFailed(r.exc))
                      /\ req' = [req EXCEPT ![c].conversation = r.arg, ![c].sent = (r.ops # <<>>)]
                 ELSE /\ req' = [req EXCEPT ![c].conversation = r.arg, ![c].sent = TRUE,
                                            ![c].ai_response = r.value]
                      /\ pc' = [pc EXCEPT ![c] = "synthesize"]
                      /\ UNCHANGED resp
  /\ UNCHANGED <<phase, orch, sst_client, murf_client, disk, mine, uploadPaths, synthPaths, nreq>>

\* dtype == "message": the try around generate_ai_response(conversation)
\* and the except that returns the fallback response
ChatConverseMessage(c, out) ==
  /\ pc[c] = "converse"
  /\ req[c].dtype = "message"
  /\ LET items == ContentsOf(req[c].messages_history)
         conversation == MessageConversation(req[c].messages_history, req[c].user_message)
         r == generate_ai_response(orch, JList(conversation), out)
     IN  IF items.exc # NoExc
         THEN /\ Respond(c, FallbackResponse(items.exc))
              /\ UNCHANGED <<req, trace, wrap>>
         ELSE /\ trace' = [trace EXCEPT ![c] = @ \o r.ops]
              /\ wrap' = [wrap EXCEPT ![c] = [fn |-> "generate_ai_response", exc |-> r.exc, ops |-> r.ops]]
              /\ IF r.exc # NoExc
                 THEN /\ Respond(c, FallbackResponse(r.exc))
                      /\ req' = [req EXCEPT ![c].conversation = r.arg, ![c].sent = (r.ops # <<>>)]
                 ELSE /\ Respond(c, Json(200, [content |-> r.value, type |-> "message"]))
                      /\ req' = [req EXCEPT ![c].conversation = r.arg, ![c].sent = TRUE,
                                            ![c].ai_response = r.value]
  /\ UNCHANGED <<phase, orch, sst_client, murf_client, disk, mine, uploadPaths, synthPaths, nreq>>

\* dtype == "audio": the try around generate_audio_response(ai_response)
\* and the response of the audio branch
ChatSynthesize(c, out) ==
  /\ pc[c] = "synthesize"
  /\ LET r == generate_audio_response(murf_client, disk, req[c].ai_response, out, c)
     IN  /\ trace' = [trace EXCEPT ![c] = @ \o r.ops]
         /\ wrap' = [wrap EXCEPT ![c] = [fn |-> "generate_audio_response", exc |-> r.exc, ops |-> r.ops]]
         /\ disk' = r.disk
         /\ IF r.exc # NoExc
            THEN /\ Respond(c, AudioGenerationFailed(r.exc))
                 /\ UNCHANGED synthPaths
            ELSE /\ Respond(c, Json(200, [content |-> req[c].ai_response,
                                          audio_filepath |-> r.value,
                                          transcribed_text |-> req[c].transcribed_text,
                                          type |-> "audio"]))
                 /\ synthPaths' = Append(synthPaths, r.value)
  /\ UNCHANGED <<phase, orch, sst_client, murf_client, req, mine, uploadPaths, nreq>>

\* ---------------------------------------------------------- /upload-audio
upload_audio(c, hasAudio) ==
  /\ Accept(c)
  /\ req' = [req EXCEPT ![c] = [NoReq EXCEPT !.route = "upload-audio", !.has_audio = hasAudio]]
  /\ wrap' = [wrap EXCEPT ![c] = NoWrap]
  /\ IF ~hasAudio
     THEN /\ Respond(c, Json(400, [error |-> "No audio file provided"]))
          /\ trace' = [trace EXCEPT ![c] = <<>>]
          /\ UNCHANGED <<disk, uploadPaths>>
     ELSE LET filename == "user_audio.mp3"
              save_path == Join("audios", filename)
          IN  /\ disk' = [disk EXCEPT ![save_path] = Uploaded(c)]
              /\ trace' = [trace EXCEPT ![c] =
                             <<Op("os.makedirs", TRUE, "audios", FALSE),
                               Op("file.save", TRUE, save_path, Exists(disk, save_path))>>]
              /\ Respond(c, Json(200, [audio_filepath |-> save_path]))
              /\ uploadPaths' = Append(uploadPaths, save_path)
  /\ UNCHANGED <<phase, orch, sst_client, murf_client, mine, synthPaths>>

\* ------------------------------------------------- /, /health, /audios/..
Available(h) == IF h # "None" THEN "available" ELSE "unavailable"

health(c) ==
  /\ Accept(c)
  /\ req' = [req EXCEPT ![c] = [NoReq EXCEPT !.route = "health"]]
  /\ Respond(c, Json(200, [status |-> "healthy",
                           orchestrator |-> Available(orch),
                           speech_to_text |-> Available(sst_client),
                           text_to_speech |-> Available(murf_client)]))
  /\ trace' = [trace EXCEPT ![c] = <<>>]
  /\ wrap' = [wrap EXCEPT ![c] = NoWrap]
  /\ UNCHANGED <<phase, orch, sst_client, murf_client, disk, mine, uploadPaths, synthPaths>>

index(c) ==
  /\ Accept(c)
  /\ req' = [req EXCEPT ![c] = [NoReq EXCEPT !.route = "index"]]
  /\ Respond(c, Json(200, [file |-> disk[IndexPath]]))
  /\ trace' = [trace EXCEPT ![c] = <<>>]
  /\ wrap' = [wrap EXCEPT ![c] = NoWrap]
  /\ UNCHANGED <<phase, orch, sst_client, murf_client, disk, mine, uploadPaths, synthPaths>>

AudioNames == {"user_audio.mp3", "ai_response.mp3"}

\* send_from_directory('audios', filename); a missing file is a 404, which
\* not_found answers with the index page
serve_audio(c, filename) ==
  /\ Accept(c)
  /\ LET path == Join("audios", filename)
     IN  /\ req' = [req EXCEPT ![c] = [NoReq EXCEPT !.route = "audios", !.user_message = path]]
         /\ IF IsFile(disk, path)
            THEN Respond(c, Json(200, [file |-> disk[path]]))
            ELSE Respond(c, Json(200, [file |-> disk[IndexPath]]))
  /\ trace' = [trace EXCEPT ![c] = <<>>]
  /\ wrap' = [wrap EXCEPT ![c] = NoWrap]
  /\ UNCHANGED <<phase, orch, sst_client, murf_client, disk, mine, uploadPaths, synthPaths>>

\* ------------------------------------------------------------- the client
\* the client reads the response and keeps the paths it was given
Receive(c) ==
  /\ pc[c] = "done"
  /\ pc' = [pc EXCEPT ![c] = "idle"]
  /\ mine' = [mine EXCEPT ![c] =
       CASE req[c].route = "upload-audio" /\ resp[c].status = 200 ->
              [@ EXCEPT !.upload = resp[c].body.audio_filepath]
         [] req[c].route = "chat" /\ "audio_filepath" \in DOMAIN resp[c].body ->
              [@ EXCEPT !.audio = resp[c].body.audio_filepath]
         [] OTHER -> @]
  /\ resp' = [resp EXCEPT ![c] = NoResp]
  /\ req' = [req EXCEPT ![c] = NoReq]
  /\ trace' = [trace EXCEPT ![c] = <<>>]
  /\ wrap' = [wrap EXCEPT ![c] = NoWrap]
  /\ UNCHANGED <<phase, orch, sst_client, murf_client, disk, uploadPaths, synthPaths, nreq>>

Next ==
  \/ initialize_clients
  \/ wsgi_import
  \/ \E c \in Clients, data \in Bodies : ChatBegin(c, data)
  \/ \E c \in Clients, out \in SttOutcomes : ChatTranscribe(c, out)
  \/ \E c \in Clients, out \in OrchOutcomes : ChatConverseAudio(c, out)
  \/ \E c \in Clients, out \in OrchOutcomes : ChatConverseMessage(c, out)
  \/ \E c \in Clients, out \in MurfOutcomes : ChatSynthesize(c, out)
  \/ \E c \in Clients, hasAudio \in BOOLEAN : upload_audio(c, hasAudio)
  \/ \E c \in Clients : health(c)
  \/ \E c \in Clients : index(c)
  \/ \E c \in Clients, filename \in AudioNames : serve_audio(c, filename)
  \/ \E c \in Clients : Receive(c)

Spec == Init /\ [][Next]_vars

\* ------------------------------------------------------------ properties
Done(c, route) == pc[c] = "done" /\ req[c].route = route
ExtIdx(c) == {i \in 1..Len(trace[c]) : trace[c][i].op \in ExternalOps}
FailedCall(c) == \E i \in ExtIdx(c) : ~trace[c][i].ok
Called(c, name) == \E i \in 1..Len(trace[c]) : trace[c][i].op = name
IsError(r) == r.status \in {400, 500} /\ "error" \in DOMAIN r.body
Validated(c) == req[c].dtype \in {"audio", "message"}

Distinct(paths) == \A i, j \in 1..Len(paths) : i # j => paths[i] # paths[j]

C3_UniqueUploadNames == Distinct(uploadPaths)

\* the cases C4 lists: body missing or empty, dtype not 'audio'/'message',
\* user_message missing, not a string, empty or only whitespace
InvalidChat(c) ==
  \/ req[c].body \in {"none", "empty"}
  \/ ~(req[c].raw_dtype.t = "str" /\ req[c].raw_dtype.s \in {"audio", "message"})
  \/ req[c].raw_user_message.t # "str"
  \/ Strip(req[c].raw_user_message.s) = ""

\* C4: an invalid /chat request is answered with status 400 and an 'error'
\* body and no external client is called; an upload without the 'audio'
\* field is answered with status 400 and no file is written
C4_InvalidIs400 ==
  \A c \in Clients :
    /\ Done(c, "chat") /\ InvalidChat(c) =>
         resp[c].status = 400 /\ "error" \in DOMAIN resp[c].body /\ ExtIdx(c) = {}
    /\ Done(c, "upload-audio") /\ ~req[c].has_audio =>
         resp[c].status = 400 /\ ~Called(c, "file.save")

Rank(name) ==
  CASE name = "stt.transcribe" -> 1
    [] name = "orch.start_session" -> 2
    [] name = "murf.generate_speech" -> 3
    [] name = "murf.save_audio" -> 4

EndsWith(t, ops) ==
  Len(ops) <= Len(t) /\ SubSeq(t, Len(t) - Len(ops) + 1, Len(t)) = ops

\* C5: within one /chat request the external calls happen in the order
\* transcribe, orchestrator, speech synthesis, each stage only after the one
\* before it succeeded, the audio stages only for dtype 'audio', none before
\* validation has passed, and none after a stage has failed
C5_StageOrder ==
  \A c \in Clients :
    req[c].route = "chat" =>
      /\ \A i, j \in ExtIdx(c) :
           i < j => Rank(trace[c][i].op) < Rank(trace[c][j].op) /\ trace[c][i].ok
      /\ \A i \in ExtIdx(c) :
           /\ Validated(c)
           /\ Rank(trace[c][i].op) # 2 => req[c].dtype = "audio"
           /\ Rank(trace[c][i].op) > 1 /\ req[c].dtype = "audio" =>
                \E j \in ExtIdx(c) : j < i /\ Rank(trace[c][j].op) = Rank(trace[c][i].op) - 1
      /\ pc[c] = "transcribe" => trace[c] = <<>>
      /\ resp[c] \in {MissingBody, InvalidDtype, MissingUserMessage} => trace[c] = <<>>
      /\ wrap[c].exc # NoExc => pc[c] = "done" /\ EndsWith(trace[c], wrap[c].ops)

C5_Witness ==
  \E c \in Clients :
    /\ Done(c, "chat") /\ req[c].dtype = "audio"
    /\ \E i \in ExtIdx(c) : trace[c][i].op = "stt.transcribe" /\ trace[c][i].ok
    /\ \E i \in ExtIdx(c) : trace[c][i].op = "orch.start_session" /\ ~trace[c][i].ok
    /\ ~Called(c, "murf.generate_speech")

TranscribeSawFile ==
  \A c \in Clients : \A i \in 1..Len(trace[c]) :
    trace[c][i].op = "stt.transcribe" => trace[c][i].existed

\* a /chat request with dtype 'audio' whose user_message names no file
NamesMissingFile(c) ==
  /\ Done(c, "chat")
  /\ req[c].raw_dtype.t = "str" /\ req[c].raw_dtype.s = "audio"
  /\ req[c].raw_user_message.t = "str"
  /\ Strip(req[c].raw_user_message.s) # ""
  /\ ~Exists(disk, req[c].raw_user_message.s)

\* C6 as stated: transcribe is called on a path only if a file exists there
\* at the time of the call, and an audio chat naming a path without a file
\* is answered with status 400 without a call to the speech-to-text client
C6_SavedBeforeTranscribed ==
  /\ TranscribeSawFile
  /\ \A c \in Clients :
       NamesMissingFile(c) => resp[c].status = 400 /\ ~Called(c, "stt.transcribe")

\* C6 amended: transcribe is called on a path only if a file exists there at
\* the time of the call; an audio chat naming a path without a file never
\* calls the speech-to-text client and is answered with an error: status 400
\* from the transcription stage when sst_client is initialized, status 500
\* from it when sst_client is None, and the status 500 of the outer handler
\* when the request fails before the transcription stage
C6_SavedBeforeTranscribedOrError ==
  /\ TranscribeSawFile
  /\ \A c \in Clients :
       NamesMissingFile(c) =>
         /\ ~Called(c, "stt.transcribe")
         /\ IsError(resp[c])
         /\ IF wrap[c].fn = "transcribe_audio"
            THEN resp[c].status = (IF sst_client = "None" THEN 500 ELSE 400)
            ELSE resp[c].status = 500 /\ trace[c] = <<>>

C6_Witness ==
  \E c1, c2 \in Clients :
    /\ NamesMissingFile(c1) /\ wrap[c1].fn = "transcribe_audio" /\ resp[c1].status = 400
    /\ Called(c2, "stt.transcribe")

\* C7: a wrapper whose client handle is None raises RuntimeError with its
\* fixed message and has performed no external call and no file-system
\* access, whatever its argument
C7_UninitializedRaisesFirst ==
  \A c \in Clients :
    /\ wrap[c].fn = "generate_ai_response" /\ orch = "None" =>
         wrap[c].exc = Exc("RuntimeError", OrchNotInit) /\ wrap[c].ops = <<>>
    /\ wrap[c].fn = "transcribe_audio" /\ sst_client = "None" =>
         wrap[c].exc = Exc("RuntimeError", SttNotInit) /\ wrap[c].ops = <<>>
    /\ wrap[c].fn = "generate_audio_response" /\ murf_client = "None" =>
         wrap[c].exc = Exc("RuntimeError", MurfNotInit) /\ wrap[c].ops = <<>>

C7_Witness ==
  \E c1, c2 \in Clients :
    /\ wrap[c1].fn = "generate_ai_response" /\ orch = "None"
    /\ req[c1].dtype = "audio" /\ trace[c1] # <<>>
    /\ wrap[c2].fn = "generate_ai_response" /\ req[c2].dtype = "message"

\* C8: once the server is serving, no step changes orch, sst_client or
\* murf_client, and every /health response reports the handles as they are
C8_HandlesReadOnly ==
  [][phase = "serving" =>
       /\ handles' = handles
       /\ \A c \in Clients :
            pc'[c] = "done" /\ req'[c].route = "health" =>
              /\ resp'[c].body.orchestrator = Available(orch)
              /\ resp'[c].body.speech_to_text = Available(sst_client)
              /\ resp'[c].body.text_to_speech = Available(murf_client)]_vars

C8_Witness ==
  \E c1, c2 \in Clients :
    /\ orch = "None" /\ sst_client # "None"
    /\ Done(c1, "chat") /\ resp[c1].status = 500
    /\ Done(c2, "health") /\ resp[c2].body.orchestrator = "unavailable"
    /\ resp[c2].body.speech_to_text = "available"

\* C9: the conversation passed to the orchestrator is the 'content' of each
\* item of messages, in order, followed by the current turn: the transcribed
\* text for dtype 'audio', user_message for dtype 'message'
C9_CurrentTurnIsLast ==
  \A c \in Clients :
    req[c].route = "chat" /\ req[c].sent =>
      req[c].conversation =
        Append(Contents(req[c].messages_history),
               IF req[c].dtype = "audio" THEN req[c].transcribed_text
               ELSE req[c].user_message)

\* C10: a client that chats with the audio_filepath its upload returned has
\* its own upload transcribed, and the file at the audio_filepath of its
\* chat response holds the speech synthesized for it
C10_OwnAudio ==
  \A c \in Clients :
    /\ ( /\ req[c].route = "chat" /\ req[c].dtype = "audio"
         /\ mine[c].upload # "" /\ req[c].user_message = mine[c].upload
         /\ req[c].heard.kind # "none" )
       => req[c].heard = Uploaded(c)
    /\ ( /\ Done(c, "audios")
         /\ mine[c].audio # "" /\ req[c].user_message = mine[c].audio )
       => resp[c].body.file.kind = "tts" /\ resp[c].body.file.by = c
====
